---- MODULE Spec2Model ----
(***************************************************************************)
(* A model of Disposable<T, YieldF, block_retries> (src/disposable.h): a   *)
(* single-slot exchange between one producer thread (try_put) and one      *)
(* consumer thread (try_read_into, or a ReadLock handle).  Every atomic    *)
(* load and every compare-and-swap of _state is one step; the copy of the  *)
(* payload is one step per field (Data of src/main.cpp is an array).       *)
(***************************************************************************)
EXTENDS Integers, Sequences, FiniteSets, TLC

\* ------------------------------------------------------------------ bounds
\* Number of try_put calls the producer makes.
MaxPuts == 2
\* Payload values are 1..MaxVal (0 stands for "never written").
MaxVal == 2
\* Number of fields of the payload, copied one at a time.
NumFields == 2

\* ------------------------------------------------------- program constants
BLOCK_RETRIES == 2
STATE_STORAGE_EMPTY_MASK == 1
STATE_READ_BLOCK_MASK == 2
STATE_WRITE_BLOCK_MASK == 4
\* StateType is uint16_t.
StateBits == 16

Values == 1..MaxVal
Fields == 1..NumFields
\* The template argument block_retries: the default, and the single-attempt
\* policy.
RetryPolicies == {0, BLOCK_RETRIES}

\* ------------------------------------------------------------ bit algebra
\* Bitwise operations on the low n bits (StateType is uint16_t).
RECURSIVE BitAnd(_, _, _)
BitAnd(a, b, n) ==
    IF n = 0 \/ a = 0 \/ b = 0 THEN 0
    ELSE (IF a % 2 = 1 /\ b % 2 = 1 THEN 1 ELSE 0)
         + 2 * BitAnd(a \div 2, b \div 2, n - 1)

RECURSIVE BitOr(_, _, _)
BitOr(a, b, n) ==
    IF n = 0 \/ (a = 0 /\ b = 0) THEN 0
    ELSE (IF a % 2 = 1 \/ b % 2 = 1 THEN 1 ELSE 0)
         + 2 * BitOr(a \div 2, b \div 2, n - 1)

\* a & ~b
RECURSIVE BitAndNot(_, _, _)
BitAndNot(a, b, n) ==
    IF n = 0 \/ a = 0 THEN 0
    ELSE (IF a % 2 = 1 /\ b % 2 = 0 THEN 1 ELSE 0)
         + 2 * BitAndNot(a \div 2, b \div 2, n - 1)

\* orig & (~mask)
clear_state_mask(orig, mask) == BitAndNot(orig, mask, StateBits)

\* orig | mask
set_state_mask(orig, mask) == BitOr(orig, mask, StateBits)

HasMask(s, mask) == BitAnd(s, mask, StateBits) # 0

\* The named states of the register.
IsEmpty(s) == s = STATE_STORAGE_EMPTY_MASK
ReadClaimed(s) == HasMask(s, STATE_READ_BLOCK_MASK)
WriteClaimed(s) == HasMask(s, STATE_WRITE_BLOCK_MASK)
IsFull(s) == ~HasMask(s, STATE_STORAGE_EMPTY_MASK) /\ ~ReadClaimed(s) /\ ~WriteClaimed(s)

\* ------------------------------------------------- the two CAS flavours
\* compare_exchange_weak may fail although the value compares equal.
CompareExchangeWeak(cur, exp) == IF cur = exp THEN {TRUE, FALSE} ELSE {FALSE}
\* compare_exchange_strong succeeds exactly when the value compares equal.
CompareExchangeStrong(cur, exp) == {cur = exp}

\* Mutant of CasStore: an unconditional exchange.
CasStore_Unconditional(cur, desired, ok) == desired

\* What a compare-and-swap leaves in _state: desired when it succeeds, the
\* current value otherwise.
CasStore(cur, desired, ok) == IF ok THEN desired ELSE cur

\* ---------------------------------------------- the claims' computations
\* Mutants of ReadExpected: the mask keeps WRITE_BLOCK set in expected; no
\* bit is cleared at all.
ReadExpected_KeepsWriteBit(s) == clear_state_mask(s, STATE_STORAGE_EMPTY_MASK)
ReadExpected_Raw(s) == s
\* ... and: the mask keeps STORAGE_EMPTY set in expected.
ReadExpected_KeepsEmptyBit(s) == clear_state_mask(s, STATE_WRITE_BLOCK_MASK)


\* Mutant of ReadDesired: the claim does not set READ_BLOCK.
ReadDesired_NoReadBit(e) == e

\* _try_block_for_read: expected and desired from a loaded state.
ReadExpected(s) ==
    clear_state_mask(s, BitOr(STATE_WRITE_BLOCK_MASK, STATE_STORAGE_EMPTY_MASK, StateBits))
ReadDesired(e) == set_state_mask(e, STATE_READ_BLOCK_MASK)

\* Mutant of WriteExpected: READ_BLOCK is not cleared from expected.
WriteExpected_KeepsReadBit(s) == s

\* Mutant of WriteDesired: the claim does not set WRITE_BLOCK.
WriteDesired_NoWriteBit(e) == e

\* _try_block_for_write: expected and desired from a loaded state.
WriteExpected(s) == clear_state_mask(s, STATE_READ_BLOCK_MASK)
WriteDesired(e) == set_state_mask(e, STATE_WRITE_BLOCK_MASK)

\* Mutant of ReadReleaseDesired: the release does not mark the slot empty.
ReadReleaseDesired_LeavesFull(e) == clear_state_mask(e, STATE_READ_BLOCK_MASK)

\* _unblock_after_read_and_empty_storage: desired from the loaded state.
ReadReleaseDesired(e) ==
    set_state_mask(clear_state_mask(e, STATE_READ_BLOCK_MASK), STATE_STORAGE_EMPTY_MASK)

\* Mutant of WriteReleaseDesired: the release leaves STORAGE_EMPTY set.
WriteReleaseDesired_KeepsEmpty(e) == clear_state_mask(e, STATE_WRITE_BLOCK_MASK)

\* _unblock_after_write_and_fill_storage: desired from the loaded state.
WriteReleaseDesired(e) ==
    clear_state_mask(e, BitOr(STATE_WRITE_BLOCK_MASK, STATE_STORAGE_EMPTY_MASK, StateBits))

\* Mutants of RetryAgain: `--retries_left != 0`; and a loop that only a
\* successful attempt ends.
RetryAgain_PreDecrement(retries_left) == retries_left - 1 # 0
RetryAgain_UntilSuccess(retries_left) == TRUE

\* `while (retries_left-- != 0)`: whether the loop goes round again.
RetryAgain(retries_left) == retries_left # 0

\* ------------------------------------------------------------------ state
NULL == "nullptr"
STORAGE == "&_storage"

VARIABLES
    \* Disposable
    block_retries,  \* the template argument BLOCK_RETRIES of this instance
    state,          \* _state
    storage,        \* _storage, field by field
    aborted,        \* a release's assert(rc) has failed
    \* producer thread, inside try_put(pv); the locals are 0 outside a call
    ppc, pv, pExpected, pDesired, pRetries, pRet, pidx,
    pcalls,         \* number of try_put calls made so far
    pResult,        \* what the producer's last try_put returned
    \* consumer thread, inside the operation cop; locals are 0 outside a call
    cpc, cop, cExpected, cDesired, cRetries, cRet, cidx,
    out,            \* the consumer's variable that try_read_into fills
    cResult,        \* what the consumer's last try_read_into / try_lock returned
    hAlive,         \* a ReadLock of this slot exists
    ptr,            \* ReadLock::_ptr
    \* history of the producer's call in progress (reset when it returns)
    pSteps, pAttempts, pFailed, pYields, pTouched,
    pSawRead,       \* READ_BLOCK was set at some point since the attempt's load
    pFree,          \* an attempt of this call failed with pSawRead false
    \* history of the consumer's call in progress (reset when it returns)
    cSteps, cAttempts, cFailed, cYields, cOut0, cPtr0, cTouched,
    cEmptyAlone, cArm, cAfter2,
    cFullAlone,     \* try_read_into began on a FULL slot, producer still since
    cFree,          \* an attempt of this try_read_into failed on a state
                    \* with neither STORAGE_EMPTY nor WRITE_BLOCK set
    \* history of the run
    nVals, nPuts, nReads, fresh, reread, distinct, putOK, lastRead, prevRead,
    justPut, streak, quiet,
    lastPut,        \* the value of the last try_put that completed
    hOwed           \* locks taken by the unlocked handle less its releases

slot == <<block_retries, state, storage, aborted>>
pvars == <<ppc, pv, pExpected, pDesired, pRetries, pRet, pidx, pcalls, pResult>>
cvars == <<cpc, cop, cExpected, cDesired, cRetries, cRet, cidx, out, cResult,
           hAlive, ptr>>
phist == <<pSteps, pAttempts, pFailed, pYields, pTouched, pSawRead, pFree>>
chist == <<cSteps, cAttempts, cFailed, cYields, cOut0, cPtr0, cTouched,
           cEmptyAlone, cArm, cAfter2, cFullAlone, cFree>>
rhist == <<nVals, nPuts, nReads, fresh, reread, distinct, putOK, lastRead,
           prevRead,
           justPut, streak, quiet, lastPut, hOwed>>
vars == <<slot, pvars, cvars, phist, chist, rhist>>

Uniform(v) == [f \in Fields |-> v]

\* Disposable(Yielder &&yield) : _state{STATE_STORAGE_EMPTY_MASK}; the
\* payload and the consumer's output start at the never-written value.
Init ==
    /\ block_retries \in RetryPolicies
    /\ state = STATE_STORAGE_EMPTY_MASK
    /\ storage = Uniform(0)
    /\ aborted = FALSE
    /\ ppc = "idle" /\ pv = 0 /\ pExpected = 0 /\ pDesired = 0
    /\ pRetries = 0 /\ pRet = TRUE /\ pidx = 0 /\ pcalls = 0 /\ pResult = FALSE
    /\ cpc = "idle" /\ cop = "none" /\ cExpected = 0 /\ cDesired = 0
    /\ cRetries = 0 /\ cRet = TRUE /\ cidx = 0 /\ out = Uniform(0)
    /\ cResult = FALSE /\ hAlive = FALSE /\ ptr = NULL
    /\ pSteps = 0 /\ pAttempts = 0 /\ pFailed = 0 /\ pYields = 0
    /\ pTouched = FALSE /\ pSawRead = FALSE /\ pFree = FALSE
    /\ cSteps = 0 /\ cAttempts = 0 /\ cFailed = 0 /\ cYields = 0
    /\ cOut0 = Uniform(0) /\ cPtr0 = NULL /\ cTouched = FALSE
    /\ cEmptyAlone = FALSE /\ cArm = 0 /\ cAfter2 = FALSE
    /\ cFullAlone = FALSE /\ cFree = FALSE
    /\ nVals = 0 /\ nPuts = 0 /\ nReads = 0 /\ fresh = FALSE /\ reread = FALSE
    /\ distinct = TRUE /\ putOK = {} /\ lastRead = 0 /\ prevRead = 0
    /\ justPut = 0 /\ streak = 0 /\ quiet = FALSE
    /\ lastPut = 0 /\ hOwed = 0

\* ---------------------------------------------------------------- history
\* What a producer's step adds to the histories.  Every clause is read off
\* the step itself: the program counters and the slot before and after it.
\* The history of a call is put back to its initial value when the call
\* returns, so it is read at the call's last step.
PHistory ==
    LET call == ppc = "idle"
        ret == ppc' = "idle"
        attempt == ppc = "w_cas"
        done == ppc = "f_cas" /\ ~aborted'
    IN
    /\ pSteps' = IF ret THEN 0 ELSE IF call THEN 1 ELSE pSteps + 1
    /\ pAttempts' = IF ret THEN 0 ELSE IF attempt THEN pAttempts + 1 ELSE pAttempts
    /\ pFailed' = IF ret THEN 0
                  ELSE IF attempt /\ ~pRet' THEN pFailed + 1 ELSE pFailed
    /\ pYields' = IF ret THEN 0
                  ELSE IF ppc = "w_retry" THEN pYields + 1 ELSE pYields
    /\ pTouched' = IF ret \/ call THEN FALSE
                   ELSE pTouched \/ state' # state \/ storage' # storage
    \* every load of _try_block_for_write is the step that leads to "w_cas"
    /\ pSawRead' = (ppc' = "w_cas" /\ ReadClaimed(state))
    /\ pFree' = IF ret THEN FALSE
                ELSE pFree \/ (attempt /\ ~pRet' /\ ~pSawRead)
    /\ cEmptyAlone' = FALSE
    /\ cFullAlone' = FALSE
    /\ cArm' = 0
    /\ cAfter2' = FALSE
    /\ UNCHANGED <<cSteps, cAttempts, cFailed, cYields, cOut0, cPtr0, cTouched,
                   cFree>>
    /\ lastPut' = IF done THEN pv ELSE lastPut
    /\ hOwed' = hOwed
    /\ nPuts' = IF done THEN nPuts + 1 ELSE nPuts
    /\ fresh' = (fresh \/ done)
    /\ nVals' = IF call /\ pv' > nVals THEN pv' ELSE nVals
    /\ distinct' = IF call THEN distinct /\ pv' > nVals ELSE distinct
    /\ putOK' = IF done THEN putOK \cup {pv} ELSE putOK
    /\ justPut' = IF done THEN pv ELSE 0
    /\ quiet' = IF call /\ streak = 0 THEN ~ReadClaimed(state) ELSE quiet
    /\ streak' = IF ret
                 THEN (IF quiet THEN (IF streak < 2 THEN streak + 1 ELSE 2) ELSE 0)
                 ELSE streak
    /\ UNCHANGED <<nReads, reread, lastRead, prevRead>>

\* What a consumer's step adds to the histories.
CHistory ==
    LET call == cpc = "idle"
        ret == cpc' = "idle"
        attempt == cpc = "r_cas"
        \* a claim-for-read taken by try_read_into or by an unlocked handle
        claimed == attempt /\ cRet' /\ ptr = NULL
        reading == cop' = "try_read_into"
        \* a lock taken by the unlocked handle; a release made by the handle
        locked == attempt /\ cRet' /\ ptr = NULL /\ cop # "try_read_into"
        released == cpc = "u_cas" /\ cop \in {"unlock", "dtor"}
        owed == hOwed + (IF locked THEN 1 ELSE 0) - (IF released THEN 1 ELSE 0)
    IN
    /\ cSteps' = IF ret THEN 0 ELSE IF call THEN 1 ELSE cSteps + 1
    /\ cAttempts' = IF ret THEN 0 ELSE IF attempt THEN cAttempts + 1 ELSE cAttempts
    /\ cFailed' = IF ret THEN 0
                  ELSE IF attempt /\ ~cRet' THEN cFailed + 1 ELSE cFailed
    /\ cYields' = IF ret THEN 0
                  ELSE IF cpc = "r_retry" THEN cYields + 1 ELSE cYields
    /\ cEmptyAlone' = IF ret THEN FALSE
                      ELSE IF call THEN reading /\ IsEmpty(state) ELSE cEmptyAlone
    /\ cOut0' = IF ret THEN out' ELSE IF call THEN out ELSE cOut0
    /\ cPtr0' = IF ret THEN ptr' ELSE IF call THEN ptr ELSE cPtr0
    /\ cTouched' = IF ret \/ call THEN FALSE
                   ELSE cTouched \/ state' # state \/ storage' # storage
    /\ cArm' = IF ret THEN 0
               ELSE IF call THEN (IF reading THEN justPut ELSE 0) ELSE cArm
    /\ cAfter2' = IF ret THEN FALSE
                  ELSE IF call THEN reading /\ streak = 2 /\ ppc = "idle"
                  ELSE cAfter2
    /\ cFullAlone' = IF ret THEN FALSE
                     ELSE IF call THEN reading /\ IsFull(state) ELSE cFullAlone
    /\ cFree' = IF ret THEN FALSE
                ELSE cFree \/ (/\ attempt /\ cop = "try_read_into" /\ ~cRet'
                               /\ ~HasMask(state, STATE_STORAGE_EMPTY_MASK)
                               /\ ~WriteClaimed(state))
    /\ pSawRead' = (ppc = "w_cas" /\ (pSawRead \/ ReadClaimed(state')))
    /\ UNCHANGED <<pSteps, pAttempts, pFailed, pYields, pTouched, pFree>>
    /\ lastPut' = lastPut
    /\ hOwed' = IF owed > 2 THEN 2 ELSE IF owed < -1 THEN -1 ELSE owed
    /\ nReads' = IF claimed THEN nReads + 1 ELSE nReads
    /\ fresh' = IF claimed THEN FALSE ELSE fresh
    /\ reread' = (reread \/ (claimed /\ ~fresh))
    /\ lastRead' = IF claimed THEN storage[1] ELSE lastRead
    /\ prevRead' = IF claimed THEN lastRead ELSE prevRead
    /\ justPut' = 0
    /\ quiet' = FALSE
    /\ streak' = 0
    /\ UNCHANGED <<nVals, nPuts, distinct, putOK>>

\* ------------------------------------------------------- producer thread
\* The locals of a call are dead once it has returned.
PLocalsDead ==
    /\ pv' = 0 /\ pExpected' = 0 /\ pDesired' = 0
    /\ pRetries' = 0 /\ pRet' = TRUE /\ pidx' = 0

\* try_put(v), up to the first load of _try_block_for_write.
PutCall(v) ==
    /\ ~aborted /\ ppc = "idle" /\ pcalls < MaxPuts
    /\ pcalls' = pcalls + 1
    /\ pv' = v
    /\ pExpected' = WriteExpected(state)
    /\ pDesired' = WriteDesired(WriteExpected(state))
    /\ pRetries' = block_retries
    /\ pRet' = TRUE
    /\ ppc' = "w_cas"
    /\ UNCHANGED <<slot, pidx, pResult, cvars>>
    /\ PHistory

\* ret = _state.compare_exchange_weak(expected, desired); if (ret) break;
WriteCas ==
    /\ ~aborted /\ ppc = "w_cas"
    /\ \E ok \in CompareExchangeWeak(state, pExpected) :
        /\ pRet' = ok
        /\ state' = CasStore(state, pDesired, ok)
        /\ IF ok
           THEN /\ pExpected' = pExpected
                /\ ppc' = "w_copy"
                /\ pidx' = 1
           ELSE /\ pExpected' = state
                /\ ppc' = "w_retry"
                /\ pidx' = pidx
    /\ UNCHANGED <<block_retries, storage, aborted, pv, pDesired, pRetries,
                   pcalls, pResult, cvars>>
    /\ PHistory

\* _yield(); expected = clear(_state.load(), READ); desired = ...;
\* } while (retries_left-- != 0); return ret;
WriteRetry ==
    /\ ~aborted /\ ppc = "w_retry"
    /\ IF RetryAgain(pRetries)
       THEN /\ pExpected' = WriteExpected(state)
            /\ pDesired' = WriteDesired(WriteExpected(state))
            /\ pRetries' = pRetries - 1
            /\ ppc' = "w_cas"
            /\ UNCHANGED <<pv, pRet, pidx, pResult>>
       ELSE /\ pResult' = pRet
            /\ ppc' = "idle"
            /\ PLocalsDead
    /\ UNCHANGED <<slot, pcalls, cvars>>
    /\ PHistory

\* _storage = v; one field at a time
WriteCopy ==
    /\ ~aborted /\ ppc = "w_copy"
    /\ storage' = [storage EXCEPT ![pidx] = pv]
    /\ IF pidx < NumFields
       THEN /\ pidx' = pidx + 1 /\ ppc' = "w_copy"
       ELSE /\ pidx' = 0 /\ ppc' = "f_load"
    /\ UNCHANGED <<block_retries, state, aborted, pv, pExpected, pDesired,
                   pRetries, pRet, pcalls, pResult, cvars>>
    /\ PHistory

\* _unblock_after_write_and_fill_storage: expected = _state.load();
WriteReleaseLoad ==
    /\ ~aborted /\ ppc = "f_load"
    /\ pExpected' = state
    /\ pDesired' = WriteReleaseDesired(state)
    /\ ppc' = "f_cas"
    /\ UNCHANGED <<slot, pv, pRetries, pRet, pidx, pcalls, pResult, cvars>>
    /\ PHistory

\* rc = _state.compare_exchange_strong(expected, desired); assert(rc);
\* return true;   (a failed assert aborts the program)
WriteReleaseCas ==
    /\ ~aborted /\ ppc = "f_cas"
    /\ \E rc \in CompareExchangeStrong(state, pExpected) :
        /\ state' = CasStore(state, pDesired, rc)
        /\ aborted' = ~rc
    /\ pResult' = TRUE
    /\ ppc' = "idle"
    /\ PLocalsDead
    /\ UNCHANGED <<block_retries, storage, pcalls, cvars>>
    /\ PHistory

\* The code never inspects the payload, so a run is what it is up to a
\* renaming of the values: a call passes a value passed before, or the next
\* new one.
PutValues == {v \in Values : v <= nVals + 1}

Producer ==
    \/ \E v \in PutValues : PutCall(v)
    \/ WriteCas
    \/ WriteRetry
    \/ WriteCopy
    \/ WriteReleaseLoad
    \/ WriteReleaseCas

\* ------------------------------------------------------- consumer thread
CLocalsDead ==
    /\ cop' = "none" /\ cExpected' = 0 /\ cDesired' = 0
    /\ cRetries' = 0 /\ cRet' = TRUE /\ cidx' = 0

\* The first statements of _try_block_for_read, up to the first load.
ReadClaimBegin ==
    /\ cExpected' = ReadExpected(state)
    /\ cDesired' = ReadDesired(ReadExpected(state))
    /\ cRetries' = block_retries
    /\ cRet' = TRUE
    /\ cpc' = "r_cas"

\* The consumer of src/main.cpp reads through try_read_into or through its
\* ReadLock, not through try_read_into while its ReadLock is locked.
ReadIntoAllowed == ptr = NULL

\* try_read_into(out), up to the first load of _try_block_for_read
ReadIntoBegin ==
    /\ ~aborted /\ cpc = "idle"
    /\ cop' = "try_read_into"
    /\ ReadClaimBegin
    /\ UNCHANGED <<slot, pvars, cidx, out, cResult, hAlive, ptr>>
    /\ CHistory

ReadIntoCall == ReadIntoAllowed /\ ReadIntoBegin

\* try_read_into(out) called by the thread whose ReadLock is locked: the
\* interface does not forbid it.
ReadIntoWhileLocked == ~ReadIntoAllowed /\ ReadIntoBegin

\* get_lock(): ReadLock{*this}
GetLock ==
    /\ ~aborted /\ cpc = "idle" /\ ~hAlive
    /\ hAlive' = TRUE
    /\ ptr' = NULL
    /\ UNCHANGED <<slot, pvars, cpc, cop, cExpected, cDesired, cRetries, cRet,
                   cidx, out, cResult>>
    /\ CHistory

\* Disposable::try_lock(): ReadLock{*this, true}
TryLockCtor ==
    /\ ~aborted /\ cpc = "idle" /\ ~hAlive
    /\ cop' = "try_lock_ctor"
    /\ hAlive' = TRUE
    /\ ptr' = NULL
    /\ ReadClaimBegin
    /\ UNCHANGED <<slot, pvars, cidx, out, cResult>>
    /\ CHistory

\* ReadLock::try_lock()
TryLockCall ==
    /\ ~aborted /\ cpc = "idle" /\ hAlive
    /\ cop' = "try_lock"
    /\ ReadClaimBegin
    /\ UNCHANGED <<slot, pvars, cidx, out, cResult, hAlive, ptr>>
    /\ CHistory

\* Mutant of LockPtr: _ptr is set whatever _try_block_for_read returned.
LockPtr_Always(ret, p) == STORAGE

\* What ReadLock::try_lock does with the result of _try_block_for_read:
\* if (ret) _ptr = &_host._storage;
LockPtr(ret, p) == IF ret THEN STORAGE ELSE p

\* ret = _state.compare_exchange_weak(expected, desired); if (ret) break;
\* On success try_read_into goes on to the copy; ReadLock::try_lock sets
\* _ptr and returns it.
ReadCas ==
    /\ ~aborted /\ cpc = "r_cas"
    /\ \E ok \in CompareExchangeWeak(state, cExpected) :
        /\ state' = CasStore(state, cDesired, ok)
        /\ IF ok
           THEN IF cop = "try_read_into"
                THEN /\ cpc' = "r_copy"
                     /\ cidx' = 1
                     /\ cRet' = TRUE
                     /\ UNCHANGED <<cop, cExpected, cDesired, cRetries,
                                    cResult, ptr>>
                ELSE /\ cpc' = "idle"
                     /\ ptr' = LockPtr(TRUE, ptr)
                     /\ cResult' = IF cop = "try_lock"
                                   THEN LockPtr(TRUE, ptr) # NULL ELSE cResult
                     /\ CLocalsDead
           ELSE /\ cExpected' = state
                /\ cRet' = FALSE
                /\ cpc' = "r_retry"
                /\ UNCHANGED <<cop, cDesired, cRetries, cidx, cResult, ptr>>
    /\ UNCHANGED <<block_retries, storage, aborted, pvars, out, hAlive>>
    /\ CHistory

\* _yield(); expected = _state.load(); ...; } while (retries_left-- != 0);
\* return ret;  try_read_into then returns false, ReadLock::try_lock _ptr.
ReadRetry ==
    /\ ~aborted /\ cpc = "r_retry"
    /\ IF RetryAgain(cRetries)
       THEN /\ cExpected' = ReadExpected(state)
            /\ cDesired' = ReadDesired(ReadExpected(state))
            /\ cRetries' = cRetries - 1
            /\ cpc' = "r_cas"
            /\ UNCHANGED <<cop, cRet, cidx, cResult, ptr>>
       ELSE /\ ptr' = LockPtr(cRet, ptr)
            /\ cResult' = IF cop = "try_read_into" THEN cRet
                          ELSE IF cop = "try_lock" THEN LockPtr(cRet, ptr) # NULL
                          ELSE cResult
            /\ cpc' = "idle"
            /\ CLocalsDead
    /\ UNCHANGED <<slot, pvars, out, hAlive>>
    /\ CHistory

\* ret = _storage; one field at a time
ReadCopy ==
    /\ ~aborted /\ cpc = "r_copy"
    /\ out' = [out EXCEPT ![cidx] = storage[cidx]]
    /\ IF cidx < NumFields
       THEN /\ cidx' = cidx + 1 /\ cpc' = "r_copy"
       ELSE /\ cidx' = 0 /\ cpc' = "u_load"
    /\ UNCHANGED <<slot, pvars, cop, cExpected, cDesired, cRetries, cRet,
                   cResult, hAlive, ptr>>
    /\ CHistory

\* d = *lock; (src/main.cpp) on a locked handle, one field at a time
DerefCall ==
    /\ ~aborted /\ cpc = "idle" /\ hAlive /\ ptr # NULL
    /\ out' = [out EXCEPT ![1] = storage[1]]
    /\ IF 1 < NumFields
       THEN /\ cop' = "deref" /\ cidx' = 2 /\ cpc' = "d_copy"
       ELSE UNCHANGED <<cop, cidx, cpc>>
    /\ UNCHANGED <<slot, pvars, cExpected, cDesired, cRetries, cRet,
                   cResult, hAlive, ptr>>
    /\ CHistory

DerefCopy ==
    /\ ~aborted /\ cpc = "d_copy"
    /\ out' = [out EXCEPT ![cidx] = storage[cidx]]
    /\ IF cidx < NumFields
       THEN /\ cidx' = cidx + 1 /\ cpc' = "d_copy"
            /\ UNCHANGED <<cop, cExpected, cDesired, cRetries, cRet>>
       ELSE /\ cpc' = "idle" /\ CLocalsDead
    /\ UNCHANGED <<slot, pvars, cResult, hAlive, ptr>>
    /\ CHistory

\* The first statements of _unblock_after_read_and_empty_storage.
ReadReleaseBegin ==
    /\ cExpected' = state
    /\ cDesired' = ReadReleaseDesired(state)
    /\ cpc' = "u_cas"

\* try_read_into after the copy: expected = _state.load(); ...
ReadReleaseLoad ==
    /\ ~aborted /\ cpc = "u_load"
    /\ ReadReleaseBegin
    /\ UNCHANGED <<slot, pvars, cop, cRetries, cRet, cidx, out, cResult,
                   hAlive, ptr>>
    /\ CHistory

\* ReadLock::unlock(): if (_ptr) { release; _ptr = nullptr; }
UnlockCall ==
    /\ ~aborted /\ cpc = "idle" /\ hAlive
    /\ IF ptr # NULL
       THEN cop' = "unlock" /\ ReadReleaseBegin
       ELSE UNCHANGED <<cop, cpc, cExpected, cDesired>>
    /\ UNCHANGED <<slot, pvars, cRetries, cRet, cidx, out, cResult, hAlive, ptr>>
    /\ CHistory

\* ~ReadLock() { unlock(); }
DtorCall ==
    /\ ~aborted /\ cpc = "idle" /\ hAlive
    /\ IF ptr # NULL
       THEN cop' = "dtor" /\ ReadReleaseBegin /\ hAlive' = hAlive
       ELSE UNCHANGED <<cop, cpc, cExpected, cDesired>> /\ hAlive' = FALSE
    /\ UNCHANGED <<slot, pvars, cRetries, cRet, cidx, out, cResult, ptr>>
    /\ CHistory

\* Mutant of UnlockedPtr: unlock() leaves _ptr as it is.
UnlockedPtr_Stale(p) == p

\* ReadLock::unlock() after the release: _ptr = nullptr;
UnlockedPtr(p) == NULL

\* rc = _state.compare_exchange_strong(expected, desired); assert(rc);
\* try_read_into then returns true; unlock() then clears _ptr, and the
\* destructor ends the handle.
ReadReleaseCas ==
    /\ ~aborted /\ cpc = "u_cas"
    /\ \E rc \in CompareExchangeStrong(state, cExpected) :
        /\ state' = CasStore(state, cDesired, rc)
        /\ aborted' = ~rc
    /\ cResult' = IF cop = "try_read_into" THEN TRUE ELSE cResult
    /\ ptr' = IF cop = "try_read_into" THEN ptr ELSE UnlockedPtr(ptr)
    /\ hAlive' = IF cop = "dtor" THEN FALSE ELSE hAlive
    /\ cpc' = "idle"
    /\ CLocalsDead
    /\ UNCHANGED <<block_retries, storage, pvars, out>>
    /\ CHistory

Consumer ==
    \/ ReadIntoCall
    \/ GetLock
    \/ TryLockCtor
    \/ TryLockCall
    \/ ReadCas
    \/ ReadRetry
    \/ ReadCopy
    \/ DerefCall
    \/ DerefCopy
    \/ ReadReleaseLoad
    \/ UnlockCall
    \/ DtorCall
    \/ ReadReleaseCas

Next == Producer \/ Consumer

Spec == Init /\ [][Next]_vars

\* The same threads, the consumer using everything the interface lets it.
NextAnyUse == Next \/ ReadIntoWhileLocked

SpecAnyUse == Init /\ [][NextAnyUse]_vars

\* ReadLock::is_locked() and ReadLock::read()
is_locked == ptr # NULL
read == ptr

\* ======================================================================
\* The properties
\* ======================================================================
\* The producer is between its successful claim-for-write and its
\* release-after-write.
InWrite == ppc \in {"w_copy", "f_load", "f_cas"}

\* The consumer is between a successful claim-for-read and its
\* release-after-read: inside try_read_into, or holding a locked ReadLock.
InRead == cpc \in {"r_copy", "u_load", "u_cas"} \/ ptr # NULL

\* The payloads of the try_put calls that have returned true.
Written == {Uniform(v) : v \in putOK}

\* C1: mutual exclusion on the storage cell: the producer is never between
\* its claim-for-write and its release while the consumer is between a
\* claim-for-read and its release.
C1_MutualExclusion == ~(InWrite /\ InRead)

\* The producer holds the write claim and a read attempt has just failed.
C1_Witness == InWrite /\ cpc = "r_retry" /\ cFailed > 0

\* C2: no torn reads: what try_read_into has copied out, what a locked
\* ReadLock points to, and what the consumer has copied through it, is in
\* all its fields the argument of one try_put call that returned true.
C2_NoTornRead ==
    /\ (cop = "try_read_into" /\ cpc \in {"u_load", "u_cas"}) => out \in Written
    /\ ptr # NULL => storage \in Written
    /\ cpc \notin {"r_copy", "d_copy"} => out \in Written \cup {Uniform(0)}

\* try_read_into has copied out the first value while the producer, with a
\* different value in hand, has failed an attempt to claim the slot.
C2_Witness ==
    /\ cop = "try_read_into" /\ cpc = "u_load" /\ out = Uniform(1)
    /\ ppc = "w_retry" /\ pv = 2

\* C3: a written value is read at most once: every successful read claim
\* has a try_put completed since the previous one, so the successful reads
\* never outnumber the successful puts, and when the producer passes
\* pairwise distinct values two consecutive successful reads differ.
C3_ReadAtMostOnce ==
    /\ ~reread
    /\ nReads <= nPuts
    /\ (distinct /\ nReads >= 2) => lastRead # prevRead

\* Two successful reads of two distinct values.
C3_Witness == nReads = 2 /\ distinct /\ prevRead = 1 /\ lastRead = 2

\* C8: READ_BLOCKED and WRITE_BLOCKED are never both set in _state.
C8_NeverBothBlocked == ~(ReadClaimed(state) /\ WriteClaimed(state))

\* READ_BLOCKED is set and an attempt to claim for write has just failed.
C8_Witness == ReadClaimed(state) /\ ppc = "w_retry" /\ pFailed > 0

\* The step with which the consumer's try_read_into returns.
ReadIntoReturns == cop = "try_read_into" /\ cpc' = "idle"

\* The step with which the producer's try_put returns.
PutReturns == ppc # "idle" /\ ppc' = "idle"

\* C4: reading an empty slot fails without side effects: a try_read_into
\* that started on an EMPTY unclaimed slot, the producer taking no step
\* during it, returns false; and whenever try_read_into returns false,
\* its output argument is as it was at the call and the call has changed
\* neither the state register nor the storage.
C4_EmptyReadFails ==
    [][ReadIntoReturns =>
          /\ cEmptyAlone => ~cResult'
          /\ ~cResult' => /\ out' = cOut0
                          /\ ~cTouched
                          /\ state' = state
                          /\ storage' = storage]_vars

\* A try_read_into on a slot emptied by an earlier successful read is about
\* to return, its last attempt having failed.
C4_Witness ==
    /\ cop = "try_read_into" /\ cpc = "r_retry" /\ cRetries = 0
    /\ cEmptyAlone /\ out # Uniform(0) /\ block_retries = BLOCK_RETRIES

\* C5: round trip: a try_read_into called right after try_put(v) has
\* returned true (the consumer having taken no step since that return),
\* during which the producer takes no step, returns true with out = v in
\* every field and leaves the slot EMPTY.
\* (cArm is v when the call began right after such a try_put, and is put
\* back to 0 by any step of the producer.)
C5_RoundTrip ==
    [][(ReadIntoReturns /\ cArm # 0) =>
          /\ cResult'
          /\ out' = Uniform(cArm)
          /\ IsEmpty(state')]_vars

\* C6: overwrite: try_put calls that begin on an unclaimed slot and run
\* with no step of the consumer since the first of them began all return
\* true; and a try_read_into that begins after two such calls, the producer
\* taking no step during it, returns true with the value of the second.
\* (quiet is TRUE in a try_put of such a sequence, cAfter2 in a
\* try_read_into that began after two of them.)
C6_Overwrite ==
    [][/\ (PutReturns /\ quiet) => pResult'
       /\ (ReadIntoReturns /\ cAfter2) =>
             /\ cArm # 0
             /\ cResult'
             /\ out' = Uniform(cArm)]_vars

\* A claim operation of the consumer reports failure with this step.
ReadClaimFails == cpc = "r_retry" /\ cpc' = "idle"

\* C7: attempt budget: a claim makes at most BLOCK_RETRIES + 1 attempts,
\* makes an attempt only when all the earlier ones have failed (it stops at
\* the first that succeeds), and reports failure only after exactly
\* BLOCK_RETRIES + 1 failed attempts (one attempt when BLOCK_RETRIES = 0).
C7_AttemptsBounded ==
    /\ pAttempts <= block_retries + 1
    /\ cAttempts <= block_retries + 1
    /\ ppc \in {"w_cas", "w_retry"} => pAttempts = pFailed
    /\ InWrite => pAttempts = pFailed + 1
    /\ cpc \in {"r_cas", "r_retry"} => cAttempts = cFailed
    /\ (cop = "try_read_into" /\ cpc \in {"r_copy", "u_load", "u_cas"})
          => cAttempts = cFailed + 1

C7_AttemptBudget ==
    /\ []C7_AttemptsBounded
    /\ [][/\ (PutReturns /\ ~pResult') =>
                pAttempts = block_retries + 1 /\ pFailed = block_retries + 1
          /\ ReadClaimFails =>
                cAttempts = block_retries + 1 /\ cFailed = block_retries + 1]_vars

\* A claim-for-write is about to report failure under the default policy.
C7_Witness ==
    /\ ppc = "w_retry" /\ pRetries = 0 /\ pFailed = BLOCK_RETRIES + 1
    /\ block_retries = BLOCK_RETRIES

\* C9: handle validity.  _ptr is null or the address of the slot's storage;
\* a handle from get_lock() starts unlocked; a handle from
\* Disposable::try_lock() is locked exactly when its claim-for-read
\* succeeded, and then READ_BLOCKED is set; ReadLock::try_lock returns
\* is_locked(), a failed one on an unlocked handle returns false and leaves
\* it unlocked, a successful one returns true with read() the storage;
\* after unlock() the handle is unlocked and read() is null.
C9_HandleValidity ==
    [][/\ read' \in {NULL, STORAGE}
       /\ (~hAlive /\ hAlive' /\ cpc' = "idle") => ~is_locked'
       /\ (cop = "try_lock_ctor" /\ cpc' = "idle") =>
             /\ is_locked' <=> cpc = "r_cas"
             /\ is_locked' => read' = STORAGE /\ ReadClaimed(state')
       /\ (cop = "try_lock" /\ cpc' = "idle") =>
             /\ cResult' = is_locked'
             /\ (cPtr0 = NULL /\ ReadClaimFails) => ~cResult' /\ read' = NULL
             /\ cpc = "r_cas" => cResult' /\ read' = STORAGE
       /\ (cop = "unlock" /\ cpc' = "idle") => ~is_locked' /\ read' = NULL]_vars

\* A try_lock on an unlocked handle is about to fail.
C9_Witness ==
    /\ cop = "try_lock" /\ cpc = "r_retry" /\ cRetries = 0 /\ cPtr0 = NULL
    /\ block_retries = BLOCK_RETRIES

\* The most steps one call takes: the first load, a CAS and a reload for
\* each failed attempt, the CAS that succeeds, the copy, and the release's
\* load and CAS.
CallStepBound == 2 * block_retries + NumFields + 4

\* C10: non-blocking termination: a call takes a bounded number of its own
\* thread's steps; a thread inside a call always has a step to take,
\* wherever the other thread is (and even if it never moves again); and
\* when the calling thread keeps being scheduled, a call in progress
\* returns.
C10_CallBounded ==
    /\ pSteps < CallStepBound
    /\ cSteps < CallStepBound
    /\ ppc # "idle" => ENABLED <<Producer>>_vars
    /\ cpc # "idle" => ENABLED <<Consumer>>_vars

C10_NonBlocking ==
    /\ []C10_CallBounded
    /\ WF_vars(Producer) => (ppc # "idle" ~> ppc = "idle")
    /\ WF_vars(Consumer) => (cpc # "idle" ~> cpc = "idle")

\* The consumer rests with its ReadLock locked while a try_put is about to
\* give up.
C10_Witness ==
    /\ cpc = "idle" /\ is_locked
    /\ ppc = "w_retry" /\ pRetries = 0 /\ pFailed = BLOCK_RETRIES + 1

\* C11: try_put returns false only if a simultaneous read blocked it: each
\* failed attempt of a try_put that returns false had READ_BLOCK set at its
\* load or at some point between its load and its CAS; and a try_put that
\* begins with no read claim held, the consumer taking no step during it,
\* returns true.
\* (pFree: an attempt of the call failed with no read claim since its load;
\* quiet: no read claim at the call and no step of the consumer since.)
C11_PutFailsOnlyIfReadBlocked ==
    [][/\ (PutReturns /\ ~pResult') => ~pFree
       /\ (PutReturns /\ quiet) => pResult']_vars

\* C12: try_read_into returns false only if a write blocked it or the
\* storage was empty: at each failed attempt of a try_read_into that returns
\* false, _state had STORAGE_EMPTY or WRITE_BLOCK set; and a try_read_into
\* that begins on a FULL unclaimed slot, the producer taking no step during
\* it, returns true.
C12_ReadFailsOnlyIfBlockedOrEmpty ==
    [][/\ (ReadIntoReturns /\ ~cResult') => ~cFree
       /\ (ReadIntoReturns /\ cFullAlone) => cResult']_vars

\* C13: a failed try_put has no effect: when try_put returns false, no step
\* of the call has changed _state or _storage, so the storage holds the
\* value it held at the call and a value not yet read stays readable.
C13_FailedPutNoEffect ==
    [][(PutReturns /\ ~pResult') =>
          /\ ~pTouched
          /\ state' = state
          /\ storage' = storage]_vars

\* A try_put(2) is about to give up while the consumer holds its read claim
\* on the first value.
C13_Witness ==
    /\ ppc = "w_retry" /\ pRetries = 0 /\ pv = 2
    /\ ReadClaimed(state) /\ storage = Uniform(1)
    /\ block_retries = BLOCK_RETRIES

\* C14: protocol violations are trapped: a release-after-read performed
\* when no read claim is held (the state it loaded is EMPTY, FULL or
\* WRITE_CLAIMED) fails its assertion and leaves _state as it was.
C14_StrayReleaseTrapped ==
    [][(cpc = "u_cas" /\ ~ReadClaimed(cExpected)) =>
          /\ aborted'
          /\ state' = state]_vars

\* C15: exactly-once release by a handle.  The locks the unlocked handle
\* has taken exceed the releases it has made by one while it is locked and
\* by none while it is unlocked or gone (hOwed), so every lock is released
\* once, by the first unlock() or the destructor; unlock() and the
\* destructor on an unlocked handle start no release and change neither
\* _state nor _storage; the release by unlock() or by the destructor leaves
\* the handle unlocked, and the destructor of a locked handle leaves the
\* slot EMPTY.
C15_ReleaseOwed ==
    /\ hOwed = IF is_locked THEN 1 ELSE 0
    /\ ~hAlive => ~is_locked

C15_ExactlyOnceRelease ==
    /\ []C15_ReleaseOwed
    /\ [][/\ ((UnlockCall \/ DtorCall) /\ ~is_locked) =>
                /\ cpc' = "idle" /\ hOwed' = hOwed
                /\ state' = state /\ storage' = storage
          /\ (cop \in {"unlock", "dtor"} /\ ReadReleaseCas) =>
                /\ hOwed = 1 /\ hOwed' = 0
                /\ ~is_locked' /\ ~aborted'
          /\ (cop = "dtor" /\ ReadReleaseCas) =>
                /\ IsEmpty(state') /\ ~hAlive']_vars

\* The destructor of a locked handle is about to release while a try_put,
\* blocked by the handle's claim, has failed an attempt.
C15_Witness ==
    /\ cop = "dtor" /\ cpc = "u_cas" /\ hOwed = 1
    /\ ppc = "w_retry" /\ pFailed > 0

\* C16: STORAGE_EMPTY is set only when no value is pending: while it is
\* set, either no try_put has completed, or a read claim has been taken
\* since the last try_put completed (~fresh) and has been released
\* (~InRead); and until a try_put has claimed the slot, _state is EMPTY with
\* no claim held, as it is at construction.
C16_EmptyOnlyWhenNothingPending ==
    /\ HasMask(state, STATE_STORAGE_EMPTY_MASK) =>
          (nPuts = 0 \/ (~fresh /\ ~InRead))
    /\ (nPuts = 0 /\ ~InWrite) => IsEmpty(state)

\* The first value has been read and released, and the producer has claimed
\* the emptied slot for the second.
C16_Witness ==
    /\ HasMask(state, STATE_STORAGE_EMPTY_MASK) /\ WriteClaimed(state)
    /\ nPuts = 1 /\ nReads = 1 /\ lastRead = 1 /\ pv = 2

\* C17: the release assertions never fail in correct use: no assert(rc)
\* has failed; between a release's load and its CAS _state stays what the
\* load saw, so the CAS succeeds; and while the write claim is held
\* WRITE_BLOCK is set and READ_BLOCK is not.
C17_ReleaseNeverFails ==
    /\ ~aborted
    /\ cpc = "u_cas" => state = cExpected
    /\ ppc = "f_cas" => state = pExpected
    /\ InWrite => WriteClaimed(state) /\ ~ReadClaimed(state)

\* try_read_into is between its release's load and CAS while the producer,
\* one attempt already failed, is about to try its CAS again.
C17_Witness ==
    /\ cop = "try_read_into" /\ cpc = "u_cas"
    /\ ppc = "w_cas" /\ pFailed > 0

\* C18: a locked handle owns the read claim: whatever the consumer thread
\* calls, try_read_into while its handle is locked included, whenever the
\* handle reports is_locked() the register has READ_BLOCK set and the
\* producer is not between a claim-for-write and its release.
C18_LockedHandleOwnsClaim ==
    is_locked => ReadClaimed(state) /\ ~InWrite

\* C19: the yield hook runs only between attempts: a claim about to make
\* an attempt has invoked the hook once after each earlier attempt; a claim
\* that succeeds on its k-th attempt has invoked it k - 1 times (never, if
\* on the first); and a claim that gives up after k attempts has invoked it
\* k - 1 times.
\* (pYields and cYields count the steps "w_retry" and "r_retry" taken, each
\* of which invokes the hook once; the step that leaves the loop is one.)
C19_YieldOnlyBetweenAttempts ==
    /\ [](/\ ppc = "w_cas" => pYields = pAttempts
          /\ cpc = "r_cas" => cYields = cAttempts)
    /\ [][/\ (ppc = "w_cas" /\ ppc' = "w_copy") => pYields = (pAttempts + 1) - 1
          /\ (cpc = "r_cas" /\ cpc' \notin {"r_cas", "r_retry"}) =>
                cYields = (cAttempts + 1) - 1
          /\ (ppc = "w_retry" /\ ppc' = "idle") => pYields + 1 = pAttempts - 1
          /\ (cpc = "r_retry" /\ cpc' = "idle") => cYields + 1 = cAttempts - 1]_vars

\* C20: order preservation: the value a successful read claim finds in the
\* storage is that of the last try_put completed before the claim, and
\* stays so while the claim is held; try_read_into and a copy through the
\* locked handle return that value; it is the value of a successful
\* try_put; and when the producer passes the values 1, 2, ... in this
\* order, each successful read returns a later value than the read before
\* it, so the values read are a subsequence of the values put, overwritten
\* ones left out.
C20_ReadsLastPut ==
    /\ InRead => storage = Uniform(lastPut) /\ lastRead = lastPut
    /\ nReads >= 1 => lastRead \in putOK
    /\ (distinct /\ nReads >= 2) => prevRead < lastRead

C20_OrderPreserved ==
    /\ []C20_ReadsLastPut
    /\ [][/\ (ReadIntoReturns /\ cResult') => out' = Uniform(lastRead)
          /\ (cop = "deref" /\ cpc' = "idle") => out' = Uniform(lastRead)]_vars

\* Two values were put before the first read, which is returning the
\* second of them.
C20_Witness ==
    /\ nPuts = 2 /\ distinct /\ nReads = 1
    /\ cop = "try_read_into" /\ cpc = "u_cas" /\ out = Uniform(2)

====
